---- MODULE Spec2Model ----
(***************************************************************************)
(* A model of gonfic: a configuration store that merges flat key/value     *)
(* maps contributed by sources (buffer, file, struct, environment) and     *)
(* exposes them as a flat map, a hierarchical map or a decoded value.      *)
(*                                                                         *)
(* Strings are sequences of one-character strings, so that splitting,      *)
(* joining, lower-casing and prefix tests are computed, not assumed.       *)
(* A Go map is an object on a heap: the store and its callers hold         *)
(* references to it.  Go iterates a map in an unspecified order, so every  *)
(* loop over a map is modelled for every order.                            *)
(***************************************************************************)
EXTENDS Integers, Sequences, FiniteSets, TLC

VARIABLES
    heap,      \* heap[r]: the contents of the map object r
    flat,      \* config.flat: the reference the store holds
    ret,       \* the reference the last ToFlatMap handed to the caller
    hist,      \* ghost: the entries of each source added with success, in order
    lastOp,    \* ghost: the operation performed last and how it ended
    view,      \* the map the last call built, if it was ToHierarchicalMap or Unmarshal
    environ,   \* os.Environ(): the process environment, "NAME=value" entries
    fnIn,      \* input of the flatten/unflatten round trips
    fnPc,      \* position in a round trip
    fnMid,     \* result of the first transform of a round trip
    fnOut      \* result of the second transform of a round trip

vars == <<heap, flat, ret, hist, lastOp, view, environ, fnIn, fnPc, fnMid, fnOut>>

storeVars == <<heap, flat, ret, hist, lastOp, view, environ>>

fnVars == <<fnIn, fnPc, fnMid, fnOut>>

----------------------------------------------------------------------------
(* Bounds *)

\* most keys in a flat map drawn as an input of unflatten
MaxKeys == 3

\* most leaves of a hierarchical map drawn as an input of flatten
MaxLeaves == 3

----------------------------------------------------------------------------
(* Strings *)

\* the leaf values
Val == {<<"1">>, <<"2">>}

EmptyMap == [k \in {} |-> <<>>]

\* strings.HasPrefix
HasPrefix(s, p) == Len(s) >= Len(p) /\ SubSeq(s, 1, Len(p)) = p

\* strings.TrimPrefix
TrimPrefix(s, p) == IF HasPrefix(s, p) THEN SubSeq(s, Len(p) + 1, Len(s)) ELSE s

\* the orders in which a Go range loop may visit the keys S of a map
Orders(S) == {o \in [1..Cardinality(S) -> S] : \A i, j \in 1..Cardinality(S) : o[i] = o[j] => i = j}

\* strings.Join(a, ".")
RECURSIVE dotJoinerNoSep(_)
dotJoinerNoSep(a) == IF Len(a) = 0 THEN <<>> ELSE a[1] \o dotJoinerNoSep(Tail(a))

RECURSIVE dotJoiner(_)
dotJoiner(a) ==
    IF Len(a) = 0 THEN <<>>
    ELSE IF Len(a) = 1 THEN a[1]
    ELSE a[1] \o <<".">> \o dotJoiner(Tail(a))

\* strings.Split(s, "."): one segment more than there are dots
dotSlicerWhole(s) == <<s>>

RECURSIVE dotSlicer(_)
dotSlicer(s) ==
    IF \A i \in 1..Len(s) : s[i] # "."
    THEN <<s>>
    ELSE LET i == CHOOSE j \in 1..Len(s) : s[j] = "." /\ \A l \in 1..(j - 1) : s[l] # "."
         IN  <<SubSeq(s, 1, i - 1)>> \o dotSlicer(SubSeq(s, i + 1, Len(s)))

----------------------------------------------------------------------------
(* Hierarchical maps: map[string]interface{} whose values are leaves or maps *)

Leaf(v) == [isMap |-> FALSE, val |-> v, kids |-> EmptyMap]

Node(m) == [isMap |-> TRUE, val |-> <<>>, kids |-> m]

\* m with m[k] = v (a Go map assignment)
Put(m, k, v) == [x \in DOMAIN m \cup {k} |-> IF x = k THEN v ELSE m[x]]

\* the outcome of a call that builds a map: the map, or a panic
Built(m) == [panic |-> FALSE, tree |-> m]

Panicked == [panic |-> TRUE, tree |-> EmptyMap]

\* One iteration of unflatten's outer loop for the segments keys: descend from
\* unflatmap, creating the missing intermediate maps, and set the last segment.
\* node.(map[string]interface{}) panics when the node is not a map.
RECURSIVE unflattenPut(_, _, _)
unflattenPut(unflatmap, keys, value) ==
    IF Len(keys) = 1
    THEN Built(Put(unflatmap, keys[1], Leaf(value)))
    ELSE LET key == keys[1]
             node == IF key \in DOMAIN unflatmap THEN unflatmap[key] ELSE Node(EmptyMap)
         IN  IF ~node.isMap
             THEN Panicked
             ELSE LET sub == unflattenPut(node.kids, Tail(keys), value)
                  IN  IF sub.panic THEN Panicked
                      ELSE Built(Put(unflatmap, key, Node(sub.tree)))

\* unflatten's outer loop, visiting the keys of flatmap in the order given
RECURSIVE unflattenLoop(_, _, _)
unflattenLoop(unflatmap, flatmap, order) ==
    IF Len(order) = 0
    THEN Built(unflatmap)
    ELSE LET r == unflattenPut(unflatmap, dotSlicer(Head(order)), flatmap[Head(order)])
         IN  IF r.panic THEN Panicked
             ELSE unflattenLoop(r.tree, flatmap, Tail(order))

\* unflatten(flatmap, dotSlicer): every outcome the iteration order allows
unflatten(flatmap) ==
    {unflattenLoop(EmptyMap, flatmap, o) : o \in Orders(DOMAIN flatmap)}

\* flattenrec: the sequences of adder(keys, value) calls it may make, one
\* sequence per choice of iteration order at every map it visits
RECURSIVE flattenrec(_, _)
RECURSIVE flattenrecLoop(_, _, _)
flattenrecLoop(unflatmap, keys, order) ==
    IF Len(order) = 0
    THEN {<<>>}
    ELSE LET key == Head(order)
             value == unflatmap[key]
             subkeys == Append(keys, key)
             first == IF value.isMap
                      THEN flattenrec(value.kids, subkeys)
                      ELSE {<<[keys |-> subkeys, value |-> value.val]>>}
         IN  {a \o b : a \in first, b \in flattenrecLoop(unflatmap, keys, Tail(order))}

flattenrec(unflatmap, keys) ==
    UNION {flattenrecLoop(unflatmap, keys, o) : o \in Orders(DOMAIN unflatmap)}

\* the adder closure of flatten applied to a sequence of calls
RECURSIVE flattenAdd(_, _)
flattenAdd(flatmap, calls) ==
    IF Len(calls) = 0
    THEN flatmap
    ELSE flattenAdd(Put(flatmap, dotJoiner(Head(calls).keys), Head(calls).value), Tail(calls))

\* flatten(unflatmap, dotJoiner): every flat map the iteration orders allow
flatten(unflatmap) == {flattenAdd(EmptyMap, calls) : calls \in flattenrec(unflatmap, <<>>)}

----------------------------------------------------------------------------
(* Inputs of the round trips *)

\* p is a strict prefix of q (as sequences)
StrictPrefix(p, q) == Len(p) < Len(q) /\ SubSeq(q, 1, Len(p)) = p

\* no key's segment path is a strict prefix of another key's
PrefixFree(flatmap) ==
    \A k1, k2 \in DOMAIN flatmap : ~StrictPrefix(dotSlicer(k1), dotSlicer(k2))

\* the subsets of S of at most n elements
RECURSIVE SubsetsUpTo(_, _)
SubsetsUpTo(S, n) ==
    IF n = 0 THEN {{}}
    ELSE LET P == SubsetsUpTo(S, n - 1) IN P \cup {X \cup {e} : X \in P, e \in S}

\* all maps from at most n elements of S to elements of T
MapsUpTo(S, n, T) == UNION {[D -> T] : D \in SubsetsUpTo(S, n)}

\* the keys of the input flat maps
FlatKeys ==
    {<<>>, <<"a">>, <<"b">>, <<"a", "b">>, <<".">>, <<"a", ".">>, <<".", "a">>,
     <<"a", ".", "a">>, <<"a", ".", "b">>, <<"b", ".", "a">>, <<"a", ".", "b", ".", "a">>}

FlatMaps == MapsUpTo(FlatKeys, MaxKeys, Val)

\* the non-empty prefixes of the path p
Prefixes(p) == {SubSeq(p, 1, n) : n \in 1..Len(p)}

\* the paths of the leaves of the input trees
TreePaths ==
    UNION {Prefixes(p) : p \in {<<<<"a">>, <<"b">>, <<"a">>>>,
                                <<<<"a">>, <<"a", ".", "b">>>>,
                                <<<<"a", ".", "b">>, <<"a">>>>,
                                <<<<"b">>, <<>>>>,
                                <<<<>>, <<"a">>>>}}

\* a leaf of an input tree: a value, or a map with no entries
LeafKinds == {Leaf(v) : v \in Val} \cup {Node(EmptyMap)}

\* the tree whose leaves are given by ls, a map from paths to leaves
RECURSIVE TreeOf(_)
TreeOf(ls) ==
    LET heads == {p[1] : p \in DOMAIN ls}
    IN  [h \in heads |->
            IF <<h>> \in DOMAIN ls
            THEN ls[<<h>>]
            ELSE LET below == {p \in DOMAIN ls : p[1] = h}
                 IN  Node(TreeOf([q \in {Tail(p) : p \in below} |-> ls[<<h>> \o q]]))]

Trees ==
    {TreeOf(ls) : ls \in {l \in MapsUpTo(TreePaths, MaxLeaves, LeafKinds) :
                            \A p, q \in DOMAIN l : ~StrictPrefix(p, q)}}

\* some map below (or at) m has no entries where a value is expected
RECURSIVE HasEmptyLeaf(_)
HasEmptyLeaf(m) ==
    \E k \in DOMAIN m : m[k].isMap /\ (DOMAIN m[k].kids = {} \/ HasEmptyLeaf(m[k].kids))

\* some segment of m contains the joiner character
RECURSIVE HasDotSegment(_)
HasDotSegment(m) ==
    \E k \in DOMAIN m : (\E i \in 1..Len(k) : k[i] = ".") \/ (m[k].isMap /\ HasDotSegment(m[k].kids))

----------------------------------------------------------------------------
(* The round trips, as a state machine *)

NoInput == [kind |-> "none", flat |-> EmptyMap, tree |-> EmptyMap]

FnInit ==
    /\ fnIn \in {[kind |-> "flat", flat |-> f, tree |-> EmptyMap] : f \in FlatMaps}
            \cup {[kind |-> "tree", flat |-> EmptyMap, tree |-> t] : t \in Trees}
    /\ fnPc = "start"
    /\ fnMid = [panic |-> FALSE, tree |-> EmptyMap, flat |-> EmptyMap]
    /\ fnOut = [panic |-> FALSE, tree |-> EmptyMap, flat |-> EmptyMap]

\* unflatten(fnIn.flat, dotSlicer)
UnflattenInput ==
    /\ fnPc = "start" /\ fnIn.kind = "flat"
    /\ \E r \in unflatten(fnIn.flat) :
          fnMid' = [panic |-> r.panic, tree |-> r.tree, flat |-> EmptyMap]
    /\ fnPc' = "mid"
    /\ UNCHANGED <<fnIn, fnOut>>

\* flatten(unflatten(fnIn.flat, dotSlicer), dotJoiner)
FlattenBack ==
    /\ fnPc = "mid" /\ fnIn.kind = "flat" /\ ~fnMid.panic
    /\ \E f \in flatten(fnMid.tree) :
          fnOut' = [panic |-> FALSE, tree |-> EmptyMap, flat |-> f]
    /\ fnPc' = "done"
    /\ UNCHANGED <<fnIn, fnMid>>

\* flatten(fnIn.tree, dotJoiner)
FlattenInput ==
    /\ fnPc = "start" /\ fnIn.kind = "tree"
    /\ \E f \in flatten(fnIn.tree) :
          fnMid' = [panic |-> FALSE, tree |-> EmptyMap, flat |-> f]
    /\ fnPc' = "mid"
    /\ UNCHANGED <<fnIn, fnOut>>

\* unflatten(flatten(fnIn.tree, dotJoiner), dotSlicer)
UnflattenBack ==
    /\ fnPc = "mid" /\ fnIn.kind = "tree"
    /\ \E r \in unflatten(fnMid.flat) :
          fnOut' = [panic |-> r.panic, tree |-> r.tree, flat |-> EmptyMap]
    /\ fnPc' = "done"
    /\ UNCHANGED <<fnIn, fnMid>>

----------------------------------------------------------------------------
(* More strings *)

Upper == <<"A", "B", "J", "L", "M", "N", "O", "S", "Y">>

Lower == <<"a", "b", "j", "l", "m", "n", "o", "s", "y">>

\* strings.ToLower
ToLower(s) ==
    [i \in 1..Len(s) |->
        IF \E u \in 1..Len(Upper) : Upper[u] = s[i]
        THEN Lower[CHOOSE u \in 1..Len(Upper) : Upper[u] = s[i]]
        ELSE s[i]]

\* strings.Replace(s, "_", ".", -1)
ReplaceUnderscores(s) == [i \in 1..Len(s) |-> IF s[i] = "_" THEN "." ELSE s[i]]

\* strings.SplitN(env, "=", 2): the text before the first "=" and the text after it
SplitN2(env) ==
    LET i == CHOOSE j \in 1..Len(env) : env[j] = "=" /\ \A l \in 1..(j - 1) : env[l] # "="
    IN  <<SubSeq(env, 1, i - 1), SubSeq(env, i + 1, Len(env))>>

\* filepath.Ext: the suffix from the last dot of the last element of the path
RECURSIVE filepathExtFrom(_, _)
filepathExtFrom(path, i) ==
    IF i = 0 \/ path[i] = "/" THEN <<>>
    ELSE IF path[i] = "." THEN SubSeq(path, i, Len(path))
    ELSE filepathExtFrom(path, i - 1)

filepathExt(path) == filepathExtFrom(path, Len(path))

----------------------------------------------------------------------------
(* The heap of map objects *)

NoErr == "ok"

\* the contents of the map r refers to; reading a nil map reads an empty map
Deref(h, r) == IF r \in DOMAIN h THEN h[r] ELSE EmptyMap

\* what an Override call leaves behind: the heap, the map and error it returns,
\* and (ghost) the entries the source contributed
Outcome(h, r, e, entries) == [heap |-> h, ref |-> r, err |-> e, entries |-> entries]

\* an Override that wrote entries into the map config, which then holds new;
\* Go panics on an assignment to an entry of a nil map
Written(h, config, new, entries) ==
    IF config \in DOMAIN h
    THEN Outcome([h EXCEPT ![config] = new], config, NoErr, entries)
    ELSE IF DOMAIN entries = {}
    THEN Outcome(h, config, NoErr, entries)
    ELSE Outcome(h, config, "panic", EmptyMap)

----------------------------------------------------------------------------
(* Buffer source *)

\* yaml.Unmarshal(buf, &m), m a map[string]interface{}: the decoder is an
\* outside library; a buffer is known by what the decoder makes of it
yamlUnmarshal(buf) ==
    IF buf.kind = "object"
    THEN [err |-> NoErr, m |-> buf.tree]
    ELSE [err |-> "cannot unmarshall", m |-> EmptyMap]

readUnmarshalableBuf(buf) ==
    LET u == yamlUnmarshal(buf)
    IN  IF u.err # NoErr
        THEN {[fm |-> EmptyMap, err |-> "cannot unmarshall"]}
        ELSE {[fm |-> fm, err |-> NoErr] : fm \in flatten(u.m)}

readYaml(buf) == readUnmarshalableBuf(buf)

readBuf(buf, ext) ==
    IF ext \in {<<"j", "s">>, <<"j", "s", "o", "n">>, <<"y", "m", "l">>, <<"y", "a", "m", "l">>}
    THEN {IF r.err # NoErr THEN [fm |-> EmptyMap, err |-> "cannot parse"] ELSE r : r \in readYaml(buf)}
    ELSE {[fm |-> EmptyMap, err |-> "not a valid yaml or json extension"]}

NewBufSource(buf, ext) == [kind |-> "buf", buf |-> buf, ext |-> ToLower(ext)]

\* for key, value := range fm { config[key] = value }, on the map object itself
bufSourceMergeKeepOld(config, fm) ==
    [k \in DOMAIN config \cup DOMAIN fm |-> IF k \in DOMAIN config THEN config[k] ELSE fm[k]]

bufSourceMerge(config, fm) ==
    [k \in DOMAIN config \cup DOMAIN fm |-> IF k \in DOMAIN fm THEN fm[k] ELSE config[k]]

\* the variant that merges what it can parse before it reports a bad extension
bufSourceOverrideEager(s, h, config) ==
    {IF r.err # NoErr
     THEN Outcome(h, config, r.err, EmptyMap)
     ELSE Outcome([h EXCEPT ![config] = bufSourceMerge(h[config], r.fm)], config,
                  (CHOOSE x \in readBuf(s.buf, s.ext) : TRUE).err, EmptyMap)
     : r \in readYaml(s.buf)}

bufSourceOverride(s, h, config) ==
    {IF r.err # NoErr
     THEN Outcome(h, config, r.err, EmptyMap)
     ELSE Written(h, config, bufSourceMerge(h[config], r.fm), r.fm)
     : r \in readBuf(s.buf, s.ext)}

----------------------------------------------------------------------------
(* File source *)

Buffer(t) == [kind |-> "object", tree |-> t]

\* a well-formed document that is not a mapping, such as 42
ScalarBuffer == [kind |-> "scalar", tree |-> EmptyMap]

\* a document the decoder rejects
GarbageBuffer == [kind |-> "garbage", tree |-> EmptyMap]

A == <<"a">>

B == <<"b">>

V1 == <<"1">>

V2 == <<"2">>

\* the documents the sources of the store are built from
StoreTrees ==
    { (A :> Leaf(V1)) @@ (B :> Node(A :> Leaf(V2))),
      (A :> Node(B :> Leaf(V2))),
      (A :> Leaf(V2)) @@ (B :> Leaf(V1)),
      (B :> Node(EmptyMap)),
      (<<"a", ".", "b">> :> Leaf(V1)) }

\* the file system: ioutil.ReadFile succeeds on these paths, and fails on any other
Files ==
    (<<"c", ".", "j", "s">> :> Buffer(A :> Node(B :> Leaf(V2)))) @@
    (<<"c", ".", "Y", "M", "L">> :> Buffer((A :> Leaf(V2)) @@ (B :> Leaf(V1)))) @@
    (<<"c", ".", "j", "s", "o", "n">> :> GarbageBuffer) @@
    (<<"c", ".", "d", "/", "c">> :> Buffer(A :> Leaf(V1)))

Paths == DOMAIN Files \cup {<<"n", ".", "j", "s">>}

NewFileSource(path) == [kind |-> "file", path |-> path]

fileSourceOverride(s, h, config) ==
    IF s.path \notin DOMAIN Files
    THEN {Outcome(h, "nil", "cannot read", EmptyMap)}
    ELSE LET buf == Files[s.path]
             ext == TrimPrefix(filepathExt(s.path), <<".">>)
         IN  bufSourceOverride(NewBufSource(buf, ext), h, config)

----------------------------------------------------------------------------
(* Struct source *)

\* json.Marshal(value): the encoder is an outside library; a value is known by
\* what the encoder makes of it
jsonMarshal(value) ==
    IF value.kind = "unserializable"
    THEN [err |-> "unsupported type", buf |-> GarbageBuffer]
    ELSE [err |-> NoErr, buf |-> value]

NewStructSource(prefix, value) == [kind |-> "struct", prefix |-> prefix, value |-> value]

\* the key structSource writes for a key of the marshalled value
structSourceKey(prefix, key) == IF prefix # <<>> THEN prefix \o <<".">> \o key ELSE key

structSourceOverride(s, h, config) ==
    LET m == jsonMarshal(s.value)
    IN  IF m.err # NoErr
        THEN {Outcome(h, config, m.err, EmptyMap)}
        ELSE LET fresh == [r \in DOMAIN h \cup {"tmp"} |-> IF r = "tmp" THEN EmptyMap ELSE h[r]]
             IN  {IF r.err # NoErr
                  THEN Outcome(h, config, r.err, EmptyMap)
                  ELSE LET fm == r.heap[r.ref]
                           own == [k \in {structSourceKey(s.prefix, key) : key \in DOMAIN fm} |->
                                      fm[CHOOSE key \in DOMAIN fm : structSourceKey(s.prefix, key) = k]]
                       IN  Written(h, config, bufSourceMerge(h[config], own), own)
                  : r \in bufSourceOverride(NewBufSource(m.buf, <<"j", "s", "o", "n">>), fresh, "tmp")}

----------------------------------------------------------------------------
(* Environment sources *)

\* the candidate key of an environment entry
envKey(env) == ReplaceUnderscores(ToLower(SplitN2(env)[1]))

envValue(env) == SplitN2(env)[2]

NewEnvSource == [kind |-> "env"]

\* the loop of envSource.Override over os.Environ(), in its order
RECURSIVE envSourceLoop(_, _)
envSourceLoop(config, envs) ==
    IF Len(envs) = 0 THEN config
    ELSE envSourceLoop(Put(config, envKey(Head(envs)), envValue(Head(envs))), Tail(envs))

envSourceOverride(s, h, config) ==
    {Written(h, config, envSourceLoop(h[config], environ), envSourceLoop(EmptyMap, environ))}

\* the earlier envSource, which keeps the variables under a prefix
NewEnvSourceAsGiven(prefix) == [kind |-> "envprefix", prefix |-> prefix]

NewEnvSourceWithPrefix(prefix) == [kind |-> "envprefix", prefix |-> ToLower(prefix)]

RECURSIVE envPrefixSourceLoop(_, _, _)
envPrefixSourceLoop(config, envs, prefix) ==
    IF Len(envs) = 0 THEN config
    ELSE LET key == envKey(Head(envs))
         IN  IF ~HasPrefix(key, prefix \o <<".">>)
             THEN envPrefixSourceLoop(config, Tail(envs), prefix)
             ELSE envPrefixSourceLoop(
                      Put(config, TrimPrefix(key, prefix \o <<".">>), envValue(Head(envs))),
                      Tail(envs), prefix)

envPrefixSourceOverride(s, h, config) ==
    {Written(h, config, envPrefixSourceLoop(h[config], environ, s.prefix),
             envPrefixSourceLoop(EmptyMap, environ, s.prefix))}

----------------------------------------------------------------------------
(* The store *)

\* most sources added with success in one behaviour
MaxSources == 2

\* most entries of the process environment
MaxEnv == 2

\* Source.Override, dispatched on the type of the source
Override(s, h, config) ==
    CASE s.kind = "buf" -> bufSourceOverride(s, h, config)
      [] s.kind = "file" -> fileSourceOverride(s, h, config)
      [] s.kind = "struct" -> structSourceOverride(s, h, config)
      [] s.kind = "env" -> envSourceOverride(s, h, config)
      [] s.kind = "envprefix" -> envPrefixSourceOverride(s, h, config)

\* AddSource: c.flat after the call, given c.flat before and what Override returned
AddSourceCommitAlways(old, r) == r.ref

AddSourceCommit(old, r) == IF r.err # NoErr THEN old ELSE r.ref

Op(op, kind, err, prefix) == [op |-> op, kind |-> kind, err |-> err, prefix |-> prefix]

\* the last call built no hierarchical map
NoView == Built(EmptyMap)

\* NewConfig
StoreInit ==
    /\ heap = [r \in {"m0"} |-> EmptyMap]
    /\ flat = "m0"
    /\ ret = "none"
    /\ hist = <<>>
    /\ lastOp = Op("NewConfig", "", NoErr, <<>>)
    /\ view = NoView

AddSource(s, given) ==
    /\ \E r \in Override(s, heap, flat) :
          /\ r.err = NoErr => Len(hist) < MaxSources
          /\ heap' = r.heap
          /\ flat' = AddSourceCommit(flat, r)
          /\ hist' = IF r.err = NoErr THEN Append(hist, r.entries) ELSE hist
          /\ lastOp' = Op("AddSource", s.kind, r.err, given)
    /\ view' = NoView
    /\ UNCHANGED <<ret, environ>>

Exts == {<<"J", "S", "O", "N">>, <<"y", "a", "m", "l">>, <<"a">>}

Bufs == {Buffer(t) : t \in StoreTrees} \cup {ScalarBuffer, GarbageBuffer}

AddBufSource ==
    \E buf \in Bufs, ext \in Exts : AddSource(NewBufSource(buf, ext), <<>>)

AddFileSource ==
    \E path \in Paths : AddSource(NewFileSource(path), <<>>)

StructValues ==
    {[kind |-> "unserializable", tree |-> EmptyMap], ScalarBuffer,
     Buffer(A :> Node(B :> Leaf(V2)))}

AddStructSource ==
    \E prefix \in {<<>>, A}, value \in StructValues :
        AddSource(NewStructSource(prefix, value), prefix)

AddEnvSource == AddSource(NewEnvSource, <<>>)

EnvPrefixes == {<<"A">>, <<"A", "_", "B">>}

AddEnvSourceWithPrefix ==
    \E prefix \in EnvPrefixes : AddSource(NewEnvSourceWithPrefix(prefix), prefix)

ToFlatMap ==
    /\ ret' = flat
    /\ lastOp' = Op("ToFlatMap", "", NoErr, <<>>)
    /\ view' = NoView
    /\ UNCHANGED <<heap, flat, hist, environ>>

ToHierarchicalMap ==
    /\ \E r \in unflatten(Deref(heap, flat)) : view' = r
    /\ lastOp' = Op("ToHierarchicalMap", "", NoErr, <<>>)
    /\ UNCHANGED <<heap, flat, ret, hist, environ>>

\* the entries of pfm whose key begins with prefix + ".", the prefix stripped
FilterPrefix(pfm, prefix) ==
    LET kept == {key \in DOMAIN pfm : HasPrefix(key, prefix \o <<".">>)}
    IN  [k \in {TrimPrefix(key, prefix \o <<".">>) : key \in kept} |-> pfm[prefix \o <<".">> \o k]]

\* the flat map Unmarshal unflattens.  Inside the if block, fm := make(...)
\* declares a second fm, which the loop fills and the end of the block drops:
\* the fm that is unflattened is the one declared before the block.
UnmarshalFlatMap(prefix, pfm) ==
    LET fm == pfm
        inner == IF prefix # <<>> THEN FilterPrefix(pfm, prefix) ELSE EmptyMap
    IN  fm

UnmarshalPrefixes == {<<>>, A}

\* Unmarshal, up to the call of the decoder: view is the map it is given
Unmarshal ==
    /\ \E prefix \in UnmarshalPrefixes :
          /\ \E r \in unflatten(UnmarshalFlatMap(prefix, Deref(heap, flat))) : view' = r
          /\ lastOp' = Op("Unmarshal", "", NoErr, prefix)
    /\ UNCHANGED <<heap, flat, ret, hist, environ>>

\* the holder of a map returned by ToFlatMap assigns to one of its entries
CallerWrite ==
    /\ ret \in DOMAIN heap
    /\ \E k \in {A, <<"z">>}, v \in Val : heap' = [heap EXCEPT ![ret] = Put(heap[ret], k, v)]
    /\ lastOp' = Op("CallerWrite", "", NoErr, <<>>)
    /\ view' = NoView
    /\ UNCHANGED <<flat, ret, hist, environ>>

FnIdle ==
    /\ fnIn = NoInput
    /\ fnPc = "start"
    /\ fnMid = [panic |-> FALSE, tree |-> EmptyMap, flat |-> EmptyMap]
    /\ fnOut = [panic |-> FALSE, tree |-> EmptyMap, flat |-> EmptyMap]

\* the environments of the store's behaviours
StoreEnvirons ==
    {<<<<"A", "_", "B", "=", "1">>>>,
     <<<<"A", "=", "2">>, <<"A", "_", "B", "=", "1">>>>}

Init == StoreInit /\ environ \in StoreEnvirons /\ FnIdle

Next ==
    \/ AddBufSource /\ UNCHANGED fnVars
    \/ AddFileSource /\ UNCHANGED fnVars
    \/ AddStructSource /\ UNCHANGED fnVars
    \/ AddEnvSource /\ UNCHANGED fnVars
    \/ AddEnvSourceWithPrefix /\ UNCHANGED fnVars
    \/ ToFlatMap /\ UNCHANGED fnVars
    \/ ToHierarchicalMap /\ UNCHANGED fnVars
    \/ Unmarshal /\ UNCHANGED fnVars

Spec == Init /\ [][Next]_vars

\* the store with a caller that writes into the maps it was handed
NextAlias ==
    \/ AddBufSource /\ UNCHANGED fnVars
    \/ AddEnvSource /\ UNCHANGED fnVars
    \/ ToFlatMap /\ UNCHANGED fnVars
    \/ ToHierarchicalMap /\ UNCHANGED fnVars
    \/ Unmarshal /\ UNCHANGED fnVars
    \/ CallerWrite /\ UNCHANGED fnVars

SpecAlias == Init /\ [][NextAlias]_vars

\* the names and values of environment variables
EnvNames ==
    {<<"A">>, <<"A", "_">>, <<"A", "_", "B">>, <<"a", "_", "b">>, <<"A", "_", "b", "_", "A">>,
     <<"A", "B">>, <<"B", "_", "A">>}

EnvValues == {V1, <<"2", "=", "a">>}

EnvEntries == {n \o <<"=">> \o v : n \in EnvNames, v \in EnvValues}

Environs == UNION {[1..n -> EnvEntries] : n \in 0..MaxEnv}

EnvInit == StoreInit /\ environ \in Environs /\ FnIdle

EnvNext == AddEnvSourceWithPrefix /\ UNCHANGED fnVars

\* the environment source with a prefix alone, over every environment
SpecEnv == EnvInit /\ [][EnvNext]_vars

FnNext ==
    \/ UnflattenInput /\ UNCHANGED storeVars
    \/ FlattenBack /\ UNCHANGED storeVars
    \/ FlattenInput /\ UNCHANGED storeVars
    \/ UnflattenBack /\ UNCHANGED storeVars

\* the flatten/unflatten round trips, over every input
FnSpecInit == StoreInit /\ environ = <<>> /\ FnInit

SpecFn == FnSpecInit /\ [][FnNext]_vars

----------------------------------------------------------------------------
(* Properties *)

\* the store's Flat Map
FlatMap == Deref(heap, flat)

\* the sources added with success that contributed the key k
Contributors(k) == {i \in 1..Len(hist) : k \in DOMAIN hist[i]}

\* C1: after any sequence of successful AddSource calls, every key of the Flat
\* Map holds the value given by the last source that contributed it, and every
\* key a source contributed is in the Flat Map.
C1_LastSourceWins ==
    /\ \A k \in DOMAIN FlatMap :
          /\ Contributors(k) # {}
          /\ LET last == CHOOSE i \in Contributors(k) : \A j \in Contributors(k) : j <= i
             IN  FlatMap[k] = hist[last][k]
    /\ \A i \in 1..Len(hist) : DOMAIN hist[i] \subseteq DOMAIN FlatMap

C1_Witness ==
    /\ Len(hist) = 2
    /\ \E k \in DOMAIN hist[1] \cap DOMAIN hist[2] : hist[1][k] # hist[2][k]
    /\ DOMAIN hist[1] \ DOMAIN hist[2] # {}
    /\ DOMAIN hist[2] \ DOMAIN hist[1] # {}

\* C2: Unmarshal with a non-empty prefix p hands the decoder the unflattening
\* of exactly the entries of the Flat Map whose key begins with p + ".", the
\* prefix stripped.
C2_DecodesBelowPrefix ==
    (lastOp.op = "Unmarshal" /\ lastOp.prefix # <<>>)
        => view \in unflatten(FilterPrefix(FlatMap, lastOp.prefix))

\* C3: an AddSource that returns an error leaves the Flat Map with the keys
\* and values it had before the call.
C3_FailedSourceChangesNothing ==
    [][(lastOp'.op = "AddSource" /\ lastOp'.err # NoErr)
          => (Deref(heap', flat') = Deref(heap, flat) /\ heap' = heap)]_vars

C3_Witness ==
    /\ lastOp.op = "AddSource" /\ lastOp.err # NoErr
    /\ DOMAIN FlatMap # {}

\* C4: a map returned by ToFlatMap is a snapshot: a later successful AddSource
\* does not change it, and a write into it does not change the Flat Map of
\* the store.
C4_ToFlatMapIsSnapshot ==
    [][/\ (lastOp'.op = "AddSource" /\ lastOp'.err = NoErr /\ ret # "none")
            => Deref(heap', ret) = Deref(heap, ret)
       /\ lastOp'.op = "CallerWrite"
            => Deref(heap', flat') = Deref(heap, flat)]_vars

\* C5: for a Flat Map in which no key is a strict prefix of another, unflatten
\* completes and flattening its result gives the Flat Map back.
C5_FlattenUnflatten ==
    (fnIn.kind = "flat" /\ PrefixFree(fnIn.flat))
        => /\ fnPc = "mid" => ~fnMid.panic
           /\ fnPc = "done" => fnOut.flat = fnIn.flat

C5_Witness ==
    /\ fnIn.kind = "flat" /\ PrefixFree(fnIn.flat) /\ fnPc = "done"
    /\ Cardinality(DOMAIN fnIn.flat) = 3
    /\ \E k \in DOMAIN fnIn.flat : Len(dotSlicer(k)) > 2

\* C6, as stated: for a Hierarchical Map with no empty-mapping leaves,
\* unflattening its flattening gives a map equal to it.
C6_UnflattenFlatten ==
    (fnIn.kind = "tree" /\ ~HasEmptyLeaf(fnIn.tree) /\ fnPc = "done")
        => (~fnOut.panic /\ fnOut.tree = fnIn.tree)

\* C6, amended: for a Hierarchical Map with no empty-mapping leaves and no
\* segment that contains the joiner ".", unflattening its flattening gives a
\* map equal to it.
C6_UnflattenFlattenNoDots ==
    (fnIn.kind = "tree" /\ ~HasEmptyLeaf(fnIn.tree) /\ ~HasDotSegment(fnIn.tree) /\ fnPc = "done")
        => (~fnOut.panic /\ fnOut.tree = fnIn.tree)

C6_Witness ==
    /\ fnIn.kind = "tree" /\ ~HasEmptyLeaf(fnIn.tree) /\ ~HasDotSegment(fnIn.tree)
    /\ fnPc = "done"
    /\ \E k \in DOMAIN fnIn.tree : fnIn.tree[k].isMap /\ \E l \in DOMAIN fnIn.tree[k].kids : fnIn.tree[k].kids[l].isMap
    /\ Cardinality(DOMAIN fnIn.tree) = 2

\* the key of an environment entry under the prefix p, as C7 states it
C7_Candidate(env) == ReplaceUnderscores(ToLower(SplitN2(env)[1]))

C7_Matches(env, p) == HasPrefix(C7_Candidate(env), ToLower(p) \o <<".">>)

C7_Key(env, p) ==
    SubSeq(C7_Candidate(env), Len(p) + 2, Len(C7_Candidate(env)))

\* C7: an Environment Source with the non-empty prefix p sets, for every
\* variable whose lower-cased, dotted name begins with lower-cased p and ".",
\* the key below the prefix to the raw value (the last such variable of the
\* environment sets it last), and no other key.
C7_EnvPrefix ==
    (lastOp.op = "AddSource" /\ lastOp.kind = "envprefix" /\ lastOp.err = NoErr)
        => LET p == lastOp.prefix
               own == hist[Len(hist)]
               matching == {i \in 1..Len(environ) : C7_Matches(environ[i], p)}
           IN  /\ DOMAIN own = {C7_Key(environ[i], p) : i \in matching}
               /\ \A i \in matching :
                     (\A j \in matching : j > i => C7_Key(environ[j], p) # C7_Key(environ[i], p))
                        => /\ own[C7_Key(environ[i], p)] = SplitN2(environ[i])[2]
                           /\ FlatMap[C7_Key(environ[i], p)] = SplitN2(environ[i])[2]

C7_Witness ==
    /\ lastOp.op = "AddSource" /\ lastOp.kind = "envprefix"
    /\ lastOp.prefix = <<"A">>
    /\ \E i, j \in 1..Len(environ) :
          /\ C7_Matches(environ[i], lastOp.prefix)
          /\ ~C7_Matches(environ[j], lastOp.prefix)
          /\ FlatMap[C7_Key(environ[i], lastOp.prefix)] = <<"2", "=", "a">>

\* C8: the store starts with an empty Flat Map, and no AddSource call,
\* whether it succeeds or fails, removes a key from it.
C8_KeysNeverLost ==
    /\ FlatMap = EmptyMap
    /\ [][lastOp'.op = "AddSource"
             => DOMAIN Deref(heap, flat) \subseteq DOMAIN Deref(heap', flat')]_vars

C8_Witness ==
    /\ Len(hist) = 2
    /\ lastOp.op = "AddSource" /\ lastOp.err # NoErr /\ lastOp.kind = "file"
    /\ Cardinality(DOMAIN FlatMap) >= 2

\* C9: for a Flat Map in which one key is a strict path-prefix of another,
\* unflatten completes without a runtime failure and returns the same map
\* whatever the order in which it visits the keys.
C9_UnflattenDeterministic ==
    (fnIn.kind = "flat" /\ ~PrefixFree(fnIn.flat) /\ fnPc = "mid")
        => /\ ~fnMid.panic
           /\ \A r \in unflatten(fnIn.flat) : r = Built(fnMid.tree)

\* C10: after any sequence of successful AddSource calls the Flat Map is
\* prefix-free.
C10_FlatMapPrefixFree == PrefixFree(FlatMap)

====
